---- MODULE Spec2Model ----
(***************************************************************************)
(* Model of the Atlas location tracker                                     *)
(* (src/src/services/TrackerService.ts) together with the pending-location *)
(* storage it writes through (locationStorage / settingsStorage of the     *)
(* storage utilities).                                                     *)
(*                                                                         *)
(* Every async method is cut at its await points: one action per           *)
(* synchronous block, which JavaScript runs to completion.  An             *)
(* AsyncStorage operation takes effect when it is issued (the native       *)
(* module serves the operations of one key in issue order); the            *)
(* continuation behind the await runs in a later step, and continuations   *)
(* of different calls may run in any order.  The two native capabilities   *)
(* the service stubs (checkLocationPermission, getCurrentLocation) are     *)
(* inputs of the environment.  Record ids (generateUUID) are the arrival   *)
(* numbers of the location updates.  No operation waits for initialize():  *)
(* the navigator is mounted together with its call, so every operation can *)
(* run before or while the config is loaded.  A read of the storage may    *)
(* fail, and is then answered as "no value" by storage.get().              *)
(*                                                                         *)
(* Under Spec every write of the storage succeeds; under LiveSpec the      *)
(* write of the tracker config that stopTracking() waits for may fail and  *)
(* the continuations of stopTracking() are scheduled fairly; under         *)
(* ReceiverSpec the receiver may deliver fixes with coordinates out of     *)
(* range.  The device moves along one meridian: a place is a whole number  *)
(* of metres north of the equator, a time a whole number of seconds, a     *)
(* speed a whole number of hundredths of m/s, rounded down.  The fixes are *)
(* chosen so that no speed is within a rounding error of a hundredth.      *)
(*                                                                         *)
(* RetrySpec and ClusterSpec apply retryWithBackoff() and                  *)
(* CurationService.clusterPhotos() to arguments drawn from bounded sets.   *)
(* SamplerSpec is one session that is not stopped, with fixes at chosen    *)
(* speeds and a reported battery level; ClassifySpec is one session that   *)
(* is neither paused nor stopped, with fixes at speeds on both sides of    *)
(* every edge of the activity bands; StorageSpec is the tracker beside a   *)
(* client of the storage utilities; CurationSpec and FeaturedSpec are      *)
(* curateTripPhotos() and selectFeaturedPhotos() of the curation service;  *)
(* TripSpec is the trip service, with calls that overlap, over the         *)
(* tracker.                                                                *)
(***************************************************************************)
EXTENDS Integers, Sequences, FiniteSets, TLC

\* ------------------------------------------------------------------ bounds
MaxFixes == 2          \* location updates delivered in one behaviour
MaxCaptures == 2       \* captureLocation() calls that may be in flight
MaxRetriesArg == 3     \* largest maxRetries passed to retryWithBackoff()
MaxFailures == 4       \* most failures of an operation before it succeeds
MaxPhotos == 3         \* most photos passed to clusterPhotos()
MaxCalls == 2          \* callers of curateTripPhotos()
MaxClassified == 3     \* location updates delivered in one behaviour of ClassifySpec
MaxTripCalls == 2      \* calls of the trip service in one behaviour

\* --------------------------------------------------------------- constants
ACTIVE_INTERVAL == 30000
IDLE_INTERVAL == 300000
STATIONARY_INTERVAL == 600000
SYNC_INTERVAL == 300000
MIN_DWELL_TIME == 1800000
SHORT_STOP_TIME == 300000
\* CURATION_CONFIG.MIN_QUALITY_SCORE, 0.5, in hundredths
MIN_QUALITY_SCORE == 50
\* TRACKING_CONFIG.BATTERY_SAVER_THRESHOLD, 0.2, in percent
BATTERY_SAVER_THRESHOLD == 20
\* the metres from the equator to a pole on the sphere of calculateDistance():
\* R * pi / 2 with R = 6371e3 m, rounded down
QuarterMeridian == 10007543
TIME_CLUSTER_WINDOW == 3600000
LOCATION_CLUSTER_RADIUS == 200
DefaultMaxRetries == 3       \* retryWithBackoff(fn, maxRetries = 3, ...)
DefaultBaseDelay == 1000     \* retryWithBackoff(fn, ..., baseDelay = 1000)

NULL == "null"
\* a nullable object or number: None is null, Some(x) holds x
None == <<>>
Some(x) == <<x>>
Get(o) == o[1]
Trips == {"t1"}
\* the ids generateUUID() gives the trips of the trip service
TripIds == {"t1", "t2"}
\* the callers of curateTripPhotos()
Callers == 1..MaxCalls
\* the calls of the trip service, in the order they are made
TripCallers == 1..MaxTripCalls
\* a GeoPoint: northing is the distance in whole metres north of the equator
\* along the meridian, which stands for the latitude northing * 180 / (pi * R)
\* degrees; longitude is in millionths of a degree
GeoPoint(northing, longitude) == [northing |-> northing, longitude |-> longitude]
\* longitude 180, in millionths of a degree
MaxLongitude == 180 * 1000000
\* the device moves along the meridian of longitude 0 at walking pace (about
\* 1.51 m/s): its k-th location update is 905 k metres from the origin at
\* second 600 k
Update(k) == [location |-> GeoPoint(905 * k, 0), timestamp |-> 600 * k]
\* a malformed k-th location update: a point 1000 m beyond the pole, of a
\* latitude over 90
InvalidUpdate(k) == [location |-> GeoPoint(QuarterMeridian + 1000, 0), timestamp |-> 600 * k]
\* a malformed k-th location update: the place of the k-th update with a
\* longitude of 360, a full turn from the meridian the device moves along
InvalidLongitudeUpdate(k) == [location |-> GeoPoint(905 * k, 2 * MaxLongitude), timestamp |-> 600 * k]
Activities == {"stationary", "walking", "driving", "train", "flying"}

VARIABLES
  state,             \* TrackerService.state
  currentTripId,     \* TrackerService.currentTripId
  lastLocation,      \* TrackerService.lastLocation
  currentActivity,   \* TrackerService.currentActivity
  config,            \* TrackerService.config
  trackingInterval,  \* TrackerService.trackingInterval: NULL or the period of the live timer
  syncInterval,      \* TrackerService.syncInterval: NULL or the period of the live timer
  pendingLocations,  \* AsyncStorage value under STORAGE_KEYS.PENDING_LOCATIONS
  trackerConfig,     \* AsyncStorage value under STORAGE_KEYS.TRACKER_CONFIG
  initCall,          \* position of the initialize() call and the config it loaded
  startCall,         \* position and argument of the startTracking() call
  stopCall,          \* position of the stopTracking() call, and whether the storage
                     \* operation it waits for has failed
  captures,          \* the captureLocation() calls in flight: how many await the
                     \* location, and the ones saving a record
  thrown,            \* the error the step just taken threw to its caller, "none" if it threw nothing
  arrivals,          \* number of location updates delivered so far; the next one gets id arrivals + 1
  retryCall,         \* the retryWithBackoff() call: its arguments, its position and its result
  clusterCall,       \* the clusterPhotos() call: its argument and its result
  batteryLevel,      \* the battery level the device reports, in percent
  isRunning,         \* CurationService.isRunning
  curateCalls,       \* the curateTripPhotos() calls: the position of each and what it has gathered
  curated,           \* what the curateTripPhotos() call that ended last gave its caller
  featuredCall,      \* the selectFeaturedPhotos() call: its arguments and its result
  tripStorage,       \* tripStorage: the status of each stored trip and the active trip id
  tripCalls,         \* the calls of TripService operations: the position of each and what it has read
  storageCall        \* the removeSyncedLocations() call: its argument, its position and the list it read

vars == <<state, currentTripId, lastLocation, currentActivity, config,
          trackingInterval, syncInterval, pendingLocations, trackerConfig,
          initCall, startCall, stopCall, captures,
          thrown, arrivals, retryCall, clusterCall, batteryLevel,
          isRunning, curateCalls, curated, featuredCall, tripStorage, tripCalls, storageCall>>

\* the variables of the tracker and of its storage
tracker == <<state, currentTripId, lastLocation, currentActivity, config,
             trackingInterval, syncInterval, pendingLocations, trackerConfig,
             initCall, startCall, stopCall, captures, thrown, arrivals>>
session == <<state, currentTripId, lastLocation, currentActivity>>
timers == <<trackingInterval, syncInterval>>
\* the variables of the curation service
curation == <<isRunning, curateCalls, curated>>
\* the variables of the trip service and of its storage
journal == <<tripStorage, tripCalls>>
\* the calls of the helper functions, the battery and the curation service,
\* which the tracker does not touch
others == <<retryCall, clusterCall, batteryLevel, curation, featuredCall, storageCall>>

\* ------------------------------------------------------------ pure helpers
Abs(x) == IF x < 0 THEN -x ELSE x

\* the latitude of a point is within [-90, 90] exactly when its northing is
\* within QuarterMeridian of the equator on the sphere of radius R = 6371e3 m
isValidCoordinate(point) ==
  /\ point.northing >= -QuarterMeridian
  /\ point.northing <= QuarterMeridian
  /\ point.longitude >= -MaxLongitude
  /\ point.longitude <= MaxLongitude

\* distance in metres between two points of one meridian, given by their
\* northings: with equal longitudes, or longitudes a full turn apart, the
\* haversine formula gives R times the difference of the latitudes in
\* radians, which is the difference of the northings
calculateDistance(point1, point2) == Abs(point2 - point1)

\* distance / timeDiff in hundredths of m/s, rounded down; 0 when time2 <= time1
calculateSpeed(point1, point2, time1, time2) ==
  LET distance == calculateDistance(point1, point2)
      timeDiff == time2 - time1
  IN IF timeDiff > 0 THEN (distance * 100) \div timeDiff ELSE 0

\* inferActivityFromSpeed with bands that are open on the lower edge
inferActivityFromSpeed_OpenLowerEdge(speedMs) ==
  IF speedMs <= 100 THEN "stationary"
  ELSE IF speedMs <= 200 THEN "walking"
  ELSE IF speedMs <= 2000 THEN "driving"
  ELSE IF speedMs <= 5500 THEN "train"
  ELSE "flying"

\* speedMs is in hundredths of m/s
inferActivityFromSpeed(speedMs) ==
  IF speedMs < 100 THEN "stationary"
  ELSE IF speedMs < 200 THEN "walking"
  ELSE IF speedMs < 2000 THEN "driving"
  ELSE IF speedMs < 5500 THEN "train"
  ELSE "flying"

getUpdateInterval(activity) ==
  CASE activity = "stationary" -> STATIONARY_INTERVAL
    [] activity = "walking" -> ACTIVE_INTERVAL
    [] activity \in {"driving", "flying", "train"} -> ACTIVE_INTERVAL
    [] OTHER -> IDLE_INTERVAL

getDefaultConfig == Some([isActive |-> FALSE, currentTripId |-> NULL])

\* number of captureLocation() calls in flight
InFlight == captures.locating + Cardinality(captures.saving)
\* another captureLocation() call fits in
CanCapture == InFlight < MaxCaptures

\* ------------------------------------------------------------------- Init
TrackerInit ==
  /\ state = "stopped"
  /\ currentTripId = NULL
  /\ lastLocation = None
  /\ currentActivity = "stationary"
  /\ config = None
  /\ trackingInterval = None
  /\ syncInterval = None
  /\ pendingLocations = <<>>
  /\ trackerConfig \in {None, getDefaultConfig}
  /\ initCall = [pc |-> "new", loaded |-> None]
  /\ startCall = [pc |-> "idle", tripId |-> NULL]
  /\ stopCall = [pc |-> "idle", from |-> NULL, failed |-> FALSE]
  /\ captures = [locating |-> 0, saving |-> {}]
  /\ thrown = "none"
  /\ arrivals = 0

\* no helper function has been called
NoRetryCall ==
  [pc |-> "idle", maxRetries |-> 0, baseDelay |-> 0, failures |-> 0, i |-> 0,
   calls |-> 0, waits |-> <<>>, lastError |-> 0, result |-> "none", error |-> 0]
NoClusterCall == [pc |-> "idle", photos |-> <<>>, clusters |-> <<>>]

NoFeaturedCall == [pc |-> "idle", photos |-> <<>>, passed |-> <<>>, count |-> 0, result |-> <<>>]
NoCurateCall == [pc |-> "idle", newPhotos |-> 0, analyzedPhotos |-> <<>>]
NoOutcome == [outcome |-> "none", analyzedPhotos |-> <<>>, result |-> None, clusters |-> <<>>]
\* no trip is stored
NoTrips == [t \in TripIds |-> "absent"]
NoTripCall ==
  [name |-> "none", tripId |-> NULL, status |-> "none", pc |-> "idle",
   trips |-> NoTrips, activeTripId |-> NULL]
NoStorageCall == [pc |-> "idle", locationIds |-> {}, local |-> <<>>]

\* a charged battery, a curation service that is not running, no trip stored
ServicesInit ==
  /\ batteryLevel = 100
  /\ isRunning = FALSE
  /\ curateCalls = [k \in Callers |-> NoCurateCall]
  /\ curated = NoOutcome
  /\ tripStorage = [trips |-> NoTrips, activeTripId |-> NULL]
  /\ tripCalls = [k \in TripCallers |-> NoTripCall]
  /\ storageCall = NoStorageCall

Init ==
  /\ TrackerInit
  /\ ServicesInit
  /\ retryCall = NoRetryCall
  /\ clusterCall = NoClusterCall
  /\ featuredCall = NoFeaturedCall

\* StopFlush continues the synchronous block of StopCall, so no other step
\* runs in between.  Nothing else holds an operation back: the navigator is
\* mounted together with the call of initialize(), so the operations can be
\* called before initialize() has returned.
Ready == stopCall.pc # "flush"

\* ------------------------------------------------------------- initialize
\* initialize(), up to the await of settingsStorage.getTrackerConfig(); a read
\* that fails is answered as no config by storage.get()
Initialize(readFails) ==
  /\ Ready
  /\ initCall.pc = "new"
  /\ initCall' = [pc |-> "load", loaded |-> IF readFails THEN None ELSE trackerConfig]
  /\ UNCHANGED <<session, config, timers, pendingLocations, trackerConfig,
                 startCall, stopCall, captures, arrivals>>
  /\ thrown' = "none"
  /\ UNCHANGED others

\* getTrackerConfig() has answered, lines 57-71: the loaded config is assigned; a
\* missing one is replaced by the default, which is written to the storage.
\* Behind the await of that write the method only logs, so the call is over
\* for every other operation as soon as the write is issued.
InitLoaded ==
  /\ Ready
  /\ initCall.pc = "load"
  /\ IF initCall.loaded = None
       THEN /\ config' = getDefaultConfig
            /\ trackerConfig' = getDefaultConfig
       ELSE /\ config' = initCall.loaded
            /\ trackerConfig' = trackerConfig
  /\ initCall' = [pc |-> "done", loaded |-> None]
  /\ UNCHANGED <<session, timers, pendingLocations,
                 startCall, stopCall, captures, arrivals>>
  /\ thrown' = "none"
  /\ UNCHANGED others

\* ---------------------------------------------------------- tracking loop
\* captureLocation(), up to the await of getCurrentLocation()
BeginCapture == [captures EXCEPT !.locating = @ + 1]

\* startTrackingLoop(): replaces the timer by one of the period the current
\* activity asks for and captures the first location at once
startTrackingLoop(activity) ==
  /\ trackingInterval' = Some(getUpdateInterval(activity))
  /\ captures' = BeginCapture

startSyncLoop == syncInterval' = Some(SYNC_INTERVAL)

\* ---------------------------------------------------------- startTracking
\* startTracking(tripId), up to the await of checkLocationPermission()
StartCall(tripId) ==
  /\ Ready
  /\ startCall.pc = "idle"
  /\ startCall' = [pc |-> "perm", tripId |-> tripId]
  /\ UNCHANGED <<session, config, timers, pendingLocations, trackerConfig,
                 initCall, stopCall, captures, arrivals>>
  /\ thrown' = "none"
  /\ UNCHANGED others

\* StartPermission with the session fields assigned before the permission is looked at
StartPermission_Eager(hasPermission) ==
  /\ Ready
  /\ startCall.pc = "perm"
  /\ currentTripId' = startCall.tripId
  /\ state' = "active"
  /\ currentActivity' = "stationary"
  /\ lastLocation' = lastLocation
  /\ IF ~hasPermission
       THEN /\ thrown' = "PermissionDenied"
            /\ startCall' = [pc |-> "idle", tripId |-> NULL]
            /\ UNCHANGED <<config, timers, trackerConfig, captures>>
       ELSE /\ config # None
            /\ config' = Some([isActive |-> TRUE, currentTripId |-> startCall.tripId])
            /\ trackerConfig' = config'
            /\ startCall' = [startCall EXCEPT !.pc = "save"]
            /\ thrown' = "none"
            /\ UNCHANGED <<timers, captures>>
  /\ UNCHANGED <<pendingLocations, initCall, stopCall, arrivals>>
  /\ UNCHANGED others

\* the permission check answers: lines 87-100, and 102-108 when there is no config to save
StartPermission(hasPermission) ==
  /\ Ready
  /\ startCall.pc = "perm"
  /\ IF ~hasPermission
       THEN /\ thrown' = "PermissionDenied"
            /\ startCall' = [pc |-> "idle", tripId |-> NULL]
            /\ UNCHANGED <<session, config, timers, trackerConfig, captures>>
       ELSE /\ currentTripId' = startCall.tripId
            /\ state' = "active"
            /\ currentActivity' = "stationary"
            /\ lastLocation' = lastLocation
            /\ IF config # None
                 THEN /\ config' = Some([isActive |-> TRUE, currentTripId |-> startCall.tripId])
                      /\ trackerConfig' = config'
                      /\ startCall' = [startCall EXCEPT !.pc = "save"]
                      /\ thrown' = "none"
                      /\ UNCHANGED <<timers, captures>>
                 ELSE /\ CanCapture
                      /\ startTrackingLoop("stationary")
                      /\ startSyncLoop
                      /\ startCall' = [pc |-> "idle", tripId |-> NULL]
                      /\ thrown' = "none"
                      /\ UNCHANGED <<config, trackerConfig>>
  /\ UNCHANGED <<pendingLocations, initCall, stopCall, arrivals>>
  /\ UNCHANGED others

\* saveTrackerConfig() has returned: lines 102-108
StartSaved ==
  /\ Ready
  /\ startCall.pc = "save"
  /\ CanCapture
  /\ startTrackingLoop(currentActivity)
  /\ startSyncLoop
  /\ startCall' = [pc |-> "idle", tripId |-> NULL]
  /\ thrown' = "none"
  /\ UNCHANGED <<session, config, pendingLocations, trackerConfig,
                 initCall, stopCall, arrivals>>
  /\ UNCHANGED others

\* ----------------------------------------------------------- stopTracking
\* StopCall with the lifecycle and the trip left for after the final sync
StopCall_Late ==
  /\ Ready
  /\ stopCall.pc = "idle"
  /\ trackingInterval' = None
  /\ syncInterval' = None
  /\ stopCall' = [pc |-> "flush", from |-> state, failed |-> FALSE]
  /\ UNCHANGED <<session, config, pendingLocations,
                 trackerConfig, initCall, startCall, captures, arrivals>>
  /\ thrown' = "none"
  /\ UNCHANGED others

\* stopTracking(), lines 120-134: the lifecycle and the timers
StopCall ==
  /\ Ready
  /\ stopCall.pc = "idle"
  /\ state' = "stopped"
  /\ currentTripId' = NULL
  /\ trackingInterval' = None
  /\ syncInterval' = None
  /\ stopCall' = [pc |-> "flush", from |-> state, failed |-> FALSE]
  /\ UNCHANGED <<lastLocation, currentActivity, config, pendingLocations,
                 trackerConfig, initCall, startCall, captures, arrivals>>
  /\ thrown' = "none"
  /\ UNCHANGED others

\* stopTracking(), line 137: the final sync is called and reads the pending
\* locations; it runs in the same synchronous block as StopCall.  A read that
\* fails is answered as an empty list by storage.get().
StopFlush(readFails) ==
  /\ stopCall.pc = "flush"
  /\ readFails \in BOOLEAN
  /\ stopCall' = [pc |-> "sync", from |-> NULL, failed |-> FALSE]
  /\ UNCHANGED <<session, config, timers, pendingLocations, trackerConfig,
                 initCall, startCall, captures, arrivals>>
  /\ thrown' = "none"
  /\ UNCHANGED others

\* the final sync has returned (it only logs, whatever it read): lines 139-144,
\* up to the await of saveTrackerConfig()
StopSynced(writeFails) ==
  /\ Ready
  /\ stopCall.pc = "sync"
  /\ IF config # None
       THEN /\ config' = Some([isActive |-> FALSE, currentTripId |-> NULL])
            /\ trackerConfig' = IF writeFails THEN trackerConfig ELSE config'
            /\ stopCall' = [pc |-> "save", from |-> NULL, failed |-> writeFails]
       ELSE /\ ~writeFails
            /\ stopCall' = [pc |-> "idle", from |-> NULL, failed |-> FALSE]
            /\ UNCHANGED <<config, trackerConfig>>
  /\ UNCHANGED <<session, timers, pendingLocations,
                 initCall, startCall, captures, arrivals>>
  /\ thrown' = "none"
  /\ UNCHANGED others

\* saveTrackerConfig() has answered: line 146, or the catch of lines 147-149,
\* which logs the error and lets the call return normally
StopSaved ==
  /\ Ready
  /\ stopCall.pc = "save"
  /\ stopCall' = [pc |-> "idle", from |-> NULL, failed |-> FALSE]
  /\ UNCHANGED <<session, config, timers, pendingLocations, trackerConfig,
                 initCall, startCall, captures, arrivals>>
  /\ thrown' = "none"
  /\ UNCHANGED others

\* --------------------------------------------------------- pause / resume
PauseTracking ==
  /\ Ready
  /\ state' = "paused"
  /\ trackingInterval' = None
  /\ UNCHANGED <<currentTripId, lastLocation, currentActivity, config,
                 syncInterval, pendingLocations, trackerConfig,
                 initCall, startCall, stopCall, captures, arrivals>>
  /\ thrown' = "none"
  /\ UNCHANGED others

\* ResumeTracking without the check for a current trip
ResumeTracking_NoGuard ==
  /\ Ready
  /\ CanCapture
  /\ state' = "active"
  /\ startTrackingLoop(currentActivity)
  /\ thrown' = "none"
  /\ UNCHANGED <<currentTripId, lastLocation, currentActivity, config,
                 syncInterval, pendingLocations, trackerConfig,
                 initCall, startCall, stopCall, arrivals>>
  /\ UNCHANGED others

ResumeTracking ==
  /\ Ready
  /\ IF currentTripId = NULL
       THEN /\ thrown' = "NoActiveSession"
            /\ UNCHANGED <<state, trackingInterval, captures>>
       ELSE /\ CanCapture
            /\ state' = "active"
            /\ startTrackingLoop(currentActivity)
            /\ thrown' = "none"
  /\ UNCHANGED <<currentTripId, lastLocation, currentActivity, config,
                 syncInterval, pendingLocations, trackerConfig,
                 initCall, startCall, stopCall, arrivals>>
  /\ UNCHANGED others

\* -------------------------------------------------------- captureLocation
\* the tracking timer fires; its callback captures only while active
TrackingTick ==
  /\ Ready
  /\ trackingInterval # None
  /\ state = "active"
  /\ CanCapture
  /\ captures' = BeginCapture
  /\ UNCHANGED <<session, config, timers, pendingLocations, trackerConfig,
                 initCall, startCall, stopCall, arrivals>>
  /\ thrown' = "none"
  /\ UNCHANGED others

\* savePendingLocation(): the record is pushed on the list that was read
savePendingLocation(local, location) == Append(local, location)

\* getCurrentLocation() answers: lines 231-263, up to the read of the pending
\* locations that savePendingLocation() issues; a read that fails is answered
\* as an empty list by storage.get()
LocationResolved(locationUpdate, readFails) ==
  /\ Ready
  /\ captures.locating > 0
  /\ IF locationUpdate = None
       THEN /\ captures' = [captures EXCEPT !.locating = @ - 1]
            /\ UNCHANGED <<currentActivity, arrivals>>
       ELSE /\ arrivals' = arrivals + 1
            /\ currentActivity' =
                 IF lastLocation # None
                   THEN inferActivityFromSpeed(
                          calculateSpeed(Get(lastLocation).location.northing,
                                         Get(locationUpdate).location.northing,
                                         Get(lastLocation).timestamp, Get(locationUpdate).timestamp))
                   ELSE currentActivity
            /\ captures' =
                 [locating |-> captures.locating - 1,
                  saving |-> captures.saving \cup
                    {[pc |-> "get",
                      fix |-> [id |-> arrivals + 1,
                               tripId |-> currentTripId,
                               location |-> Get(locationUpdate).location,
                               timestamp |-> Get(locationUpdate).timestamp,
                               activity |-> currentActivity'],
                      local |-> IF readFails THEN <<>> ELSE pendingLocations]}]
  /\ UNCHANGED <<state, currentTripId, lastLocation, config, timers,
                 pendingLocations, trackerConfig, initCall, startCall, stopCall>>
  /\ thrown' = "none"
  /\ UNCHANGED others

\* the pending locations have been read: the record is pushed and the list written
PendingWritten(c) ==
  /\ Ready
  /\ c \in captures.saving
  /\ c.pc = "get"
  /\ pendingLocations' = savePendingLocation(c.local, c.fix)
  /\ captures' = [captures EXCEPT !.saving = (@ \ {c}) \cup {[c EXCEPT !.pc = "set", !.local = <<>>]}]
  /\ UNCHANGED <<session, config, timers, trackerConfig,
                 initCall, startCall, stopCall, arrivals>>
  /\ thrown' = "none"
  /\ UNCHANGED others

\* savePendingLocation() has returned: line 266
CaptureDone(c) ==
  /\ Ready
  /\ c \in captures.saving
  /\ c.pc = "set"
  /\ lastLocation' = Some([location |-> c.fix.location, timestamp |-> c.fix.timestamp])
  /\ captures' = [captures EXCEPT !.saving = @ \ {c}]
  /\ UNCHANGED <<state, currentTripId, currentActivity, config, timers,
                 pendingLocations, trackerConfig, initCall, startCall, stopCall,
                 arrivals>>
  /\ thrown' = "none"
  /\ UNCHANGED others

\* ---------------------------------------------------- syncPendingLocations
\* the sync timer fires: syncPendingLocations() reads the pending locations and
\* logs their number; the (mock) sync hands nothing over and removes nothing
SyncTick ==
  /\ Ready
  /\ syncInterval # None
  /\ UNCHANGED <<session, config, timers, pendingLocations, trackerConfig,
                 initCall, startCall, stopCall, captures, arrivals>>
  /\ thrown' = "none"
  /\ UNCHANGED others

\* ------------------------------------------------------------------- Next
\* what getCurrentLocation() may answer next: nothing, or the next update of
\* a receiver that delivers MaxFixes updates
LocationUpdates ==
  {None} \cup {Some(Update(k)) : k \in {arrivals + 1} \cap (1..MaxFixes)}

Next ==
  \/ \E readFails \in BOOLEAN : Initialize(readFails) /\ UNCHANGED journal
  \/ InitLoaded /\ UNCHANGED journal
  \/ \E tripId \in Trips : StartCall(tripId) /\ UNCHANGED journal
  \/ \E hasPermission \in BOOLEAN : StartPermission(hasPermission) /\ UNCHANGED journal
  \/ StartSaved /\ UNCHANGED journal
  \/ StopCall /\ UNCHANGED journal
  \/ \E readFails \in BOOLEAN : StopFlush(readFails) /\ UNCHANGED journal
  \/ StopSynced(FALSE) /\ UNCHANGED journal
  \/ StopSaved /\ UNCHANGED journal
  \/ PauseTracking /\ UNCHANGED journal
  \/ ResumeTracking /\ UNCHANGED journal
  \/ TrackingTick /\ UNCHANGED journal
  \/ \E locationUpdate \in LocationUpdates, readFails \in BOOLEAN :
       LocationResolved(locationUpdate, readFails) /\ UNCHANGED journal
  \/ \E c \in captures.saving : PendingWritten(c) /\ UNCHANGED journal
  \/ \E c \in captures.saving : CaptureDone(c) /\ UNCHANGED journal
  \/ SyncTick /\ UNCHANGED journal

Spec == Init /\ [][Next]_vars

\* what a receiver that also delivers malformed fixes may answer next
RawLocationUpdates ==
  LocationUpdates
    \cup {Some(InvalidUpdate(k)) : k \in {arrivals + 1} \cap (1..MaxFixes)}
    \cup {Some(InvalidLongitudeUpdate(k)) : k \in {arrivals + 1} \cap (1..MaxFixes)}

\* The steps of ReceiverSpec: those of Next, with a receiver that may deliver
\* fixes whose latitude or longitude is out of range.
ReceiverNext ==
  \/ \E readFails \in BOOLEAN : Initialize(readFails) /\ UNCHANGED journal
  \/ InitLoaded /\ UNCHANGED journal
  \/ \E tripId \in Trips : StartCall(tripId) /\ UNCHANGED journal
  \/ \E hasPermission \in BOOLEAN : StartPermission(hasPermission) /\ UNCHANGED journal
  \/ StartSaved /\ UNCHANGED journal
  \/ StopCall /\ UNCHANGED journal
  \/ \E readFails \in BOOLEAN : StopFlush(readFails) /\ UNCHANGED journal
  \/ StopSynced(FALSE) /\ UNCHANGED journal
  \/ StopSaved /\ UNCHANGED journal
  \/ PauseTracking /\ UNCHANGED journal
  \/ ResumeTracking /\ UNCHANGED journal
  \/ TrackingTick /\ UNCHANGED journal
  \/ \E locationUpdate \in RawLocationUpdates, readFails \in BOOLEAN :
       LocationResolved(locationUpdate, readFails) /\ UNCHANGED journal
  \/ \E c \in captures.saving : PendingWritten(c) /\ UNCHANGED journal
  \/ \E c \in captures.saving : CaptureDone(c) /\ UNCHANGED journal
  \/ SyncTick /\ UNCHANGED journal

ReceiverSpec == Init /\ [][ReceiverNext]_vars

\* The steps of LiveSpec: those of Next, with a storage whose write of the
\* tracker config in stopTracking() may fail, for a device that delivers one
\* location update fewer.
LiveNext ==
  \/ \E readFails \in BOOLEAN : Initialize(readFails) /\ UNCHANGED journal
  \/ InitLoaded /\ UNCHANGED journal
  \/ \E tripId \in Trips : StartCall(tripId) /\ UNCHANGED journal
  \/ \E hasPermission \in BOOLEAN : StartPermission(hasPermission) /\ UNCHANGED journal
  \/ StartSaved /\ UNCHANGED journal
  \/ StopCall /\ UNCHANGED journal
  \/ \E readFails \in BOOLEAN : StopFlush(readFails) /\ UNCHANGED journal
  \/ \E writeFails \in BOOLEAN : StopSynced(writeFails) /\ UNCHANGED journal
  \/ StopSaved /\ UNCHANGED journal
  \/ PauseTracking /\ UNCHANGED journal
  \/ ResumeTracking /\ UNCHANGED journal
  \/ TrackingTick /\ UNCHANGED journal
  \/ \E locationUpdate \in LocationUpdates, readFails \in BOOLEAN :
       LocationResolved(locationUpdate, readFails) /\ arrivals' < MaxFixes /\ UNCHANGED journal
  \/ \E c \in captures.saving : PendingWritten(c) /\ UNCHANGED journal
  \/ \E c \in captures.saving : CaptureDone(c) /\ UNCHANGED journal
  \/ SyncTick /\ UNCHANGED journal

\* The continuations of a stopTracking() call run whenever they can: the
\* final sync follows the lifecycle change in the same synchronous block, the
\* storage answers every read and every write (with a value or an error), and
\* the event loop runs a continuation whose promise has settled.  The method
\* itself sets no timeout at its awaits (lines 137 and 146): a call whose
\* storage never answered would never return.
StopFairness ==
  /\ WF_vars(\E readFails \in BOOLEAN : StopFlush(readFails) /\ UNCHANGED journal)
  /\ WF_vars(\E writeFails \in BOOLEAN : StopSynced(writeFails) /\ UNCHANGED journal)
  /\ WF_vars(StopSaved /\ UNCHANGED journal)

LiveSpec == Init /\ [][LiveNext]_vars /\ StopFairness

\* -------------------------------------------------------- retryWithBackoff
\* The operation passed to retryWithBackoff() fails `failures` times and
\* succeeds from then on; its k-th call fails with an error of its own,
\* numbered k.  lastError = 0 and error = 0 stand for undefined.
BaseDelays == {100, DefaultBaseDelay}

\* backoffDelay doubling from the first wait on
backoffDelay_Doubled(baseDelay, i) == baseDelay * 2^(i + 1)

\* line 308: the delay slept after the failure of iteration i
backoffDelay(baseDelay, i) == baseDelay * 2^i

\* the call retryWithBackoff(fn, maxRetries, baseDelay), about to test the loop condition
retryWithBackoff(maxRetries, baseDelay, failures) ==
  [pc |-> "loop", maxRetries |-> maxRetries, baseDelay |-> baseDelay,
   failures |-> failures, i |-> 0, calls |-> 0, waits |-> <<>>,
   lastError |-> 0, result |-> "none", error |-> 0]

RetryInit ==
  /\ TrackerInit
  /\ ServicesInit
  /\ trackerConfig = None
  /\ clusterCall = NoClusterCall
  /\ featuredCall = NoFeaturedCall
  /\ \E maxRetries \in 0..MaxRetriesArg, baseDelay \in BaseDelays, failures \in 0..MaxFailures :
       retryCall = retryWithBackoff(maxRetries, baseDelay, failures)

\* lines 303-305 and 315: the loop condition; fn() is called, or the loop is
\* over and lastError is thrown
RetryLoop ==
  /\ retryCall.pc = "loop"
  /\ IF retryCall.i < retryCall.maxRetries
       THEN retryCall' = [retryCall EXCEPT !.pc = "fn", !.calls = @ + 1]
       ELSE retryCall' = [retryCall EXCEPT !.pc = "done", !.result = "thrown",
                                           !.error = retryCall.lastError]
  /\ UNCHANGED <<tracker, journal, clusterCall, batteryLevel, curation, featuredCall, storageCall>>

\* lines 305-311: fn() has answered; its value is returned, or its error is
\* kept and, unless this was the last iteration, the delay is slept
RetryAnswered ==
  /\ retryCall.pc = "fn"
  /\ IF retryCall.calls > retryCall.failures
       THEN retryCall' = [retryCall EXCEPT !.pc = "done", !.result = "returned"]
       ELSE IF retryCall.i < retryCall.maxRetries - 1
              THEN retryCall' =
                     [retryCall EXCEPT !.pc = "sleep", !.lastError = retryCall.calls,
                        !.waits = Append(@, backoffDelay(retryCall.baseDelay, retryCall.i))]
              ELSE retryCall' =
                     [retryCall EXCEPT !.pc = "loop", !.lastError = retryCall.calls,
                        !.i = @ + 1]
  /\ UNCHANGED <<tracker, journal, clusterCall, batteryLevel, curation, featuredCall, storageCall>>

\* line 310, 303: the delay is over; next iteration
RetrySlept ==
  /\ retryCall.pc = "sleep"
  /\ retryCall' = [retryCall EXCEPT !.pc = "loop", !.i = @ + 1]
  /\ UNCHANGED <<tracker, journal, clusterCall, batteryLevel, curation, featuredCall, storageCall>>

RetryNext == RetryLoop \/ RetryAnswered \/ RetrySlept

RetrySpec == RetryInit /\ [][RetryNext]_vars

\* ---------------------------------------------------------- clusterPhotos
\* A photo is [nativeId, timestamp, location]: nativeId is its place in the
\* list passed in, timestamp is timestamp.getTime() in ms, location is None or
\* Some point of the meridian.  A cluster is [photos, centerLocation,
\* startTime, endTime]; its centerLocation is a point of the meridian, rounded
\* down to the metre, and the point 0 stands for {latitude: 0, longitude: 0}.
PhotoTimes == {0, 1800000, 3600000, 3600001}
PhotoPlaces == {100, 300, 301}
Shots == [timestamp : PhotoTimes, location : {None} \cup {Some(p) : p \in PhotoPlaces}]

\* the photo put in front of the photos of its own timestamp
insertByTimestamp_BeforeTies(sorted, photo) ==
  LET before == SelectSeq(sorted, LAMBDA q : q.timestamp < photo.timestamp)
      after == SelectSeq(sorted, LAMBDA q : q.timestamp >= photo.timestamp)
  IN before \o <<photo>> \o after

\* the photo put behind the photos that are not later than it
insertByTimestamp(sorted, photo) ==
  LET before == SelectSeq(sorted, LAMBDA q : q.timestamp <= photo.timestamp)
      after == SelectSeq(sorted, LAMBDA q : q.timestamp > photo.timestamp)
  IN before \o <<photo>> \o after

\* line 288: [...photos].sort() by timestamp, a stable sort
RECURSIVE sortByTimestamp(_)
sortByTimestamp(photos) ==
  IF photos = <<>> THEN <<>>
  ELSE insertByTimestamp(sortByTimestamp(SubSeq(photos, 1, Len(photos) - 1)),
                         photos[Len(photos)])

RECURSIVE SumLocations(_)
SumLocations(photos) ==
  IF photos = <<>> THEN 0
  ELSE Get(photos[1].location) + SumLocations(Tail(photos))

\* finalizeCluster with the centre averaged over all the photos of the cluster
finalizeCluster_AllPhotos(photos) ==
  LET photosWithLocation == SelectSeq(photos, LAMBDA p : p.location # None)
  IN [photos |-> photos,
      centerLocation |-> IF Len(photosWithLocation) > 0
                           THEN SumLocations(photosWithLocation) \div Len(photos)
                           ELSE 0,
      startTime |-> photos[1].timestamp,
      endTime |-> photos[Len(photos)].timestamp]

\* finalizeCluster(): lines 329-370
finalizeCluster(photos) ==
  LET photosWithLocation == SelectSeq(photos, LAMBDA p : p.location # None)
  IN [photos |-> photos,
      centerLocation |-> IF Len(photosWithLocation) > 0
                           THEN SumLocations(photosWithLocation) \div Len(photosWithLocation)
                           ELSE 0,
      startTime |-> photos[1].timestamp,
      endTime |-> photos[Len(photos)].timestamp]

\* the photo the next one is compared with, taken from the front of the cluster
lastPhoto_First(currentCluster) == currentCluster[1]

\* line 294: the last photo of the current cluster
lastPhoto(currentCluster) == currentCluster[Len(currentCluster)]

\* lines 297-298
withinTimeWindow(photo, last) ==
  photo.timestamp - last.timestamp <= TIME_CLUSTER_WINDOW

\* the location test left out
withinLocationRadius_Ignored(photo, last) == TRUE

\* lines 300-304
withinLocationRadius(photo, last) ==
  IF photo.location # None /\ last.location # None
    THEN calculateDistance(Get(photo.location), Get(last.location)) <= LOCATION_CLUSTER_RADIUS
    ELSE TRUE

\* lines 292-321: the loop from photo i on, and the last cluster
RECURSIVE clusterLoop(_, _, _, _)
clusterLoop(sorted, i, currentCluster, clusters) ==
  IF i > Len(sorted)
    THEN IF Len(currentCluster) > 0
           THEN Append(clusters, finalizeCluster(currentCluster))
           ELSE clusters
    ELSE LET photo == sorted[i]
             last == lastPhoto(currentCluster)
         IN IF withinTimeWindow(photo, last) /\ withinLocationRadius(photo, last)
              THEN clusterLoop(sorted, i + 1, Append(currentCluster, photo), clusters)
              ELSE clusterLoop(sorted, i + 1, <<photo>>,
                               IF Len(currentCluster) > 0
                                 THEN Append(clusters, finalizeCluster(currentCluster))
                                 ELSE clusters)

\* clusterPhotos(): lines 280-324
clusterPhotos(photos) ==
  IF Len(photos) = 0 THEN <<>>
  ELSE LET sorted == sortByTimestamp(photos)
       IN clusterLoop(sorted, 2, <<sorted[1]>>, <<>>)

\* the list of photos to cluster is empty at first
ClusterInit ==
  /\ TrackerInit
  /\ ServicesInit
  /\ trackerConfig = None
  /\ retryCall = NoRetryCall
  /\ featuredCall = NoFeaturedCall
  /\ clusterCall = [pc |-> "photos", photos |-> <<>>, clusters |-> <<>>]

\* one more photo for the list, of at most MaxPhotos photos, that is passed in
AddPhoto(shot) ==
  /\ clusterCall.pc = "photos"
  /\ Len(clusterCall.photos) < MaxPhotos
  /\ clusterCall' =
       [clusterCall EXCEPT !.photos =
          Append(@, [nativeId |-> Len(@) + 1, timestamp |-> shot.timestamp,
                     location |-> shot.location])]
  /\ UNCHANGED <<tracker, journal, retryCall, batteryLevel, curation, featuredCall, storageCall>>

\* clusterPhotos() is called with the list and runs to its return
ClusterPhotos ==
  /\ clusterCall.pc = "photos"
  /\ clusterCall' = [clusterCall EXCEPT !.pc = "done",
                                        !.clusters = clusterPhotos(clusterCall.photos)]
  /\ UNCHANGED <<tracker, journal, retryCall, batteryLevel, curation, featuredCall, storageCall>>

ClusterNext ==
  \/ \E shot \in Shots : AddPhoto(shot)
  \/ ClusterPhotos

ClusterSpec == ClusterInit /\ [][ClusterNext]_vars

\* ------------------------------------------------------- curateTripPhotos
\* what analyzePhoto() may answer about a photo: junk or not, with a score
\* under, at or over the minimum, taken within or beyond the cluster window
\* of the first time; the analysis carries no location
GateScores == {MIN_QUALITY_SCORE - 1, MIN_QUALITY_SCORE, 85}
Analyses ==
  [isJunk : BOOLEAN, qualityScore : GateScores, timestamp : {0, TIME_CLUSTER_WINDOW + 1}]

\* the filter with a score that has to be over the minimum
goodPhotos_Strict(analyzedPhotos) ==
  SelectSeq(analyzedPhotos, LAMBDA p : ~p.isJunk /\ p.qualityScore > MIN_QUALITY_SCORE)

\* lines 107-109: the photos that are kept
goodPhotos(analyzedPhotos) ==
  SelectSeq(analyzedPhotos, LAMBDA p : ~p.isJunk /\ p.qualityScore >= MIN_QUALITY_SCORE)

\* lines 83-88, 94, 110-116: the result of a run and the clusters it creates
curationResult(analyzedPhotos) ==
  LET good == goodPhotos(analyzedPhotos)
      clusters == clusterPhotos(good)
  IN [outcome |-> "returned",
      analyzedPhotos |-> analyzedPhotos,
      result |-> Some([photosProcessed |-> Len(analyzedPhotos),
                       photosAdded |-> Len(good),
                       photosFiltered |-> Len(analyzedPhotos) - Len(good),
                       clustersCreated |-> Len(clusters)]),
      clusters |-> clusters]

\* a run ends: its caller gets the outcome and the finally block clears the flag
EndRun(k, outcome) ==
  /\ curated' = outcome
  /\ curateCalls' = [curateCalls EXCEPT ![k] = NoCurateCall]
  /\ isRunning' = FALSE

CurationInit ==
  /\ TrackerInit
  /\ ServicesInit
  /\ trackerConfig = None
  /\ retryCall = NoRetryCall
  /\ clusterCall = NoClusterCall
  /\ featuredCall = NoFeaturedCall

\* CurateCall with the check of the flag inside the try block, so that the
\* finally block runs for a rejected call too
CurateCall_GuardInTry(k) ==
  /\ curateCalls[k].pc = "idle"
  /\ IF isRunning
       THEN /\ curated' = [NoOutcome EXCEPT !.outcome = "rejected"]
            /\ isRunning' = FALSE
            /\ UNCHANGED curateCalls
       ELSE /\ isRunning' = TRUE
            /\ curateCalls' = [curateCalls EXCEPT ![k] = [NoCurateCall EXCEPT !.pc = "fetch"]]
            /\ curated' = NoOutcome
  /\ UNCHANGED <<tracker, journal, retryCall, clusterCall, batteryLevel, featuredCall, storageCall>>

\* curateTripPhotos(trip) is called by caller k: lines 74-91, up to the await
\* of getNewPhotosSince(); a call that finds the flag set throws before the
\* try block.  The outcome of the run before is forgotten when a run begins.
CurateCall(k) ==
  /\ curateCalls[k].pc = "idle"
  /\ IF isRunning
       THEN /\ curated' = [NoOutcome EXCEPT !.outcome = "rejected"]
            /\ UNCHANGED <<isRunning, curateCalls>>
       ELSE /\ isRunning' = TRUE
            /\ curateCalls' = [curateCalls EXCEPT ![k] = [NoCurateCall EXCEPT !.pc = "fetch"]]
            /\ curated' = NoOutcome
  /\ UNCHANGED <<tracker, journal, retryCall, clusterCall, batteryLevel, featuredCall, storageCall>>

\* getNewPhotosSince() answers with an error (None) or with some photos: lines 91-97,
\* and 124-130 when the run ends here
PhotosFetched(k, answer) ==
  /\ curateCalls[k].pc = "fetch"
  /\ CASE answer = None -> EndRun(k, [NoOutcome EXCEPT !.outcome = "threw"])
       [] answer = Some(0) -> EndRun(k, curationResult(<<>>))
       [] OTHER ->
            /\ curateCalls' = [curateCalls EXCEPT ![k] = [@ EXCEPT !.pc = "analyze",
                                                                    !.newPhotos = Get(answer)]]
            /\ UNCHANGED <<isRunning, curated>>
  /\ UNCHANGED <<tracker, journal, retryCall, clusterCall, batteryLevel, featuredCall, storageCall>>

\* analyzePhoto() answers for the next photo with an error (None) or an analysis:
\* lines 100-104, and after the last photo lines 106-130
PhotoAnalyzed(k, answer) ==
  /\ curateCalls[k].pc = "analyze"
  /\ IF answer = None
       THEN EndRun(k, [NoOutcome EXCEPT !.outcome = "threw"])
       ELSE LET analyzedPhotos ==
                  Append(curateCalls[k].analyzedPhotos,
                         [nativeId |-> Len(curateCalls[k].analyzedPhotos) + 1,
                          isJunk |-> Get(answer).isJunk,
                          qualityScore |-> Get(answer).qualityScore,
                          timestamp |-> Get(answer).timestamp,
                          location |-> None])
            IN IF Len(analyzedPhotos) < curateCalls[k].newPhotos
                 THEN /\ curateCalls' =
                           [curateCalls EXCEPT ![k] = [@ EXCEPT !.analyzedPhotos = analyzedPhotos]]
                      /\ UNCHANGED <<isRunning, curated>>
                 ELSE EndRun(k, curationResult(analyzedPhotos))
  /\ UNCHANGED <<tracker, journal, retryCall, clusterCall, batteryLevel, featuredCall, storageCall>>

CurationNext ==
  \/ \E k \in Callers : CurateCall(k)
  \/ \E k \in Callers, answer \in {None} \cup {Some(n) : n \in 0..MaxPhotos} :
       PhotosFetched(k, answer)
  \/ \E k \in Callers, answer \in {None} \cup {Some(a) : a \in Analyses} :
       PhotoAnalyzed(k, answer)

CurationSpec == CurationInit /\ [][CurationNext]_vars

\* --------------------------------------------------- selectFeaturedPhotos
\* quality scores, in hundredths
QualityScores == {50, 85, 90}
\* the counts asked for: none, fewer than, as many as and more than the photos
Counts == 0..(MaxPhotos + 1)

\* the photo put in front of the photos of its own score
insertByQuality_BeforeTies(sorted, photo) ==
  LET before == SelectSeq(sorted, LAMBDA q : q.qualityScore > photo.qualityScore)
      after == SelectSeq(sorted, LAMBDA q : q.qualityScore <= photo.qualityScore)
  IN before \o <<photo>> \o after

\* the photo put behind the photos whose score is not lower than its own
insertByQuality(sorted, photo) ==
  LET before == SelectSeq(sorted, LAMBDA q : q.qualityScore >= photo.qualityScore)
      after == SelectSeq(sorted, LAMBDA q : q.qualityScore < photo.qualityScore)
  IN before \o <<photo>> \o after

\* sort() by qualityScore descending, a stable sort
RECURSIVE sortByQuality(_)
sortByQuality(photos) ==
  IF photos = <<>> THEN <<>>
  ELSE insertByQuality(sortByQuality(SubSeq(photos, 1, Len(photos) - 1)),
                       photos[Len(photos)])

\* line 157: [...photos].sort(): the array that was passed, as the call leaves
\* it, and the sorted copy
sortedCopy(photos) == [photos |-> photos, sorted |-> sortByQuality(photos)]

\* line 160: slice(0, count), for a count that is not negative
slice(array, count) ==
  SubSeq(array, 1, IF count < Len(array) THEN count ELSE Len(array))

\* selectFeaturedPhotos(): lines 155-161; the caller's array afterwards and
\* the array returned
selectFeaturedPhotos(photos, count) ==
  LET copy == sortedCopy(photos)
  IN [photos |-> copy.photos, result |-> slice(copy.sorted, count)]

\* the array of photos to choose from is empty at first
FeaturedInit ==
  /\ TrackerInit
  /\ ServicesInit
  /\ trackerConfig = None
  /\ retryCall = NoRetryCall
  /\ clusterCall = NoClusterCall
  /\ featuredCall = [NoFeaturedCall EXCEPT !.pc = "photos"]

\* one more photo for the array, of at most MaxPhotos photos, that is passed in
AddFeaturedPhoto(score) ==
  /\ featuredCall.pc = "photos"
  /\ Len(featuredCall.photos) < MaxPhotos
  /\ featuredCall' =
       [featuredCall EXCEPT !.photos =
          Append(@, [nativeId |-> Len(@) + 1, qualityScore |-> score])]
  /\ UNCHANGED <<tracker, journal, retryCall, clusterCall, batteryLevel, curation, storageCall>>

\* selectFeaturedPhotos() is called with the array and runs to its return
SelectFeaturedPhotos(count) ==
  /\ featuredCall.pc = "photos"
  /\ LET call == selectFeaturedPhotos(featuredCall.photos, count)
     IN featuredCall' = [pc |-> "done", photos |-> call.photos,
                         passed |-> featuredCall.photos, count |-> count,
                         result |-> call.result]
  /\ UNCHANGED <<tracker, journal, retryCall, clusterCall, batteryLevel, curation, storageCall>>

FeaturedNext ==
  \/ \E score \in QualityScores : AddFeaturedPhoto(score)
  \/ \E count \in Counts : SelectFeaturedPhotos(count)

FeaturedSpec == FeaturedInit /\ [][FeaturedNext]_vars

\* ------------------------------------------------------------ TripService
\* The operations of the trip service over the tracker they call, each cut at
\* its awaits.  A behaviour has up to MaxTripCalls calls, and any number of
\* them may be in progress at once: nothing keeps a handler of the user
\* interface from calling one while another waits.  A read or a write of tripStorage takes effect in the step that
\* issues it; the step in which it answers runs the code up to the next await.
\* The tracker runs one startTracking() and one stopTracking() at a time, and
\* getCurrentLocation() answers as it is written, with no location.

\* the k-th call of the trip service
tripCall(k) == tripCalls[k]

\* a call of the trip service: its name, its trip, the status it is to store,
\* its position, and what the read it waits for has given it
TripCall(name, tripId, status, pc, trips, activeTripId) ==
  [name |-> name, tripId |-> tripId, status |-> status, pc |-> pc,
   trips |-> trips, activeTripId |-> activeTripId]

\* the k-th call, at another position with another list read
Moved(k, pc, trips) ==
  [tripCalls EXCEPT ![k] = [@ EXCEPT !.pc = pc, !.trips = trips, !.activeTripId = NULL]]

\* the k-th call has returned or thrown
EndedTripCall == [NoTripCall EXCEPT !.pc = "done"]
Ended(k) == [tripCalls EXCEPT ![k] = EndedTripCall]

\* the next call of the trip service is the k-th
NextTripCall(k) ==
  /\ tripCalls[k].pc = "idle"
  /\ \A j \in 1..(k - 1) : tripCalls[j].pc # "idle"

\* tripStorage.getAllTrips(): the stored trips, or none when the read fails
getAllTrips(readFails) == IF readFails THEN NoTrips ELSE tripStorage.trips

\* tripStorage.getActiveTripId(): the stored id, or null when the read fails
getActiveTripId(readFails) == IF readFails THEN NULL ELSE tripStorage.activeTripId

\* tripStorage.saveTrip(), lines 114-120: the trip replaces the one of its id
\* in the list that was read, or is pushed on it
saveTrip(trips, tripId, status) == [trips EXCEPT ![tripId] = status]

\* tripStorage.deleteTrip(), line 146: the list that was read without the trip
deleteTrip(trips, tripId) == [trips EXCEPT ![tripId] = "absent"]

\* generateUUID() gives an id that no stored trip and no call in progress carries
Fresh(tripId) ==
  /\ tripStorage.trips[tripId] = "absent"
  /\ \A k \in TripCallers : /\ tripCalls[k].tripId # tripId
                            /\ tripCalls[k].trips[tripId] = "absent"

\* createTrip(name, startNow), lines 280-299: the trip is built and saveTrip()
\* reads the trips
CreateTrip(k, tripId, startNow, readFails) ==
  /\ NextTripCall(k)
  /\ Fresh(tripId)
  /\ tripCalls' = [tripCalls EXCEPT ![k] =
       TripCall("createTrip", tripId, IF startNow THEN "active" ELSE "completed",
                "create.get", getAllTrips(readFails), NULL)]
  /\ UNCHANGED <<tripStorage, tracker, others>>

\* the read of saveTrip() has answered: the list with the new trip is written
CreateRead(k) ==
  /\ tripCall(k).pc = "create.get"
  /\ tripStorage' = [tripStorage EXCEPT
       !.trips = saveTrip(tripCall(k).trips, tripCall(k).tripId, tripCall(k).status)]
  /\ tripCalls' = Moved(k, "create.set", NoTrips)
  /\ UNCHANGED <<tracker, others>>

\* the write of saveTrip() has answered, lines 299-305: createTrip() returns,
\* or calls startTrip(), whose updateTrip() reads the trips for getTrip()
CreateWritten(k, readFails) ==
  /\ tripCall(k).pc = "create.set"
  /\ tripCalls' = IF tripCall(k).status = "active"
                    THEN Moved(k, "get", getAllTrips(readFails))
                    ELSE Ended(k)
  /\ UNCHANGED <<tripStorage, tracker, others>>

\* updateTrip(tripId, {status}), up to the read of getTrip() (line 360)
UpdateTrip(k, tripId, status, readFails) ==
  /\ NextTripCall(k)
  /\ tripCalls' = [tripCalls EXCEPT ![k] =
       TripCall("updateTrip", tripId, status, "get", getAllTrips(readFails), NULL)]
  /\ UNCHANGED <<tripStorage, tracker, others>>

\* startTrip(tripId), up to the read of getTrip() in updateTrip() (line 389)
StartTrip(k, tripId, readFails) ==
  /\ NextTripCall(k)
  /\ tripCalls' = [tripCalls EXCEPT ![k] =
       TripCall("startTrip", tripId, "active", "get", getAllTrips(readFails), NULL)]
  /\ UNCHANGED <<tripStorage, tracker, others>>

\* pauseTrip(tripId), lines 434-439: pauseTracking() runs to its end, and
\* pauseTrip() awaits the promise it returns
PauseTrip(k, tripId) ==
  /\ NextTripCall(k)
  /\ PauseTracking
  /\ tripCalls' = [tripCalls EXCEPT ![k] =
       TripCall("pauseTrip", tripId, "paused", "awaitPause", NoTrips, NULL)]
  /\ UNCHANGED tripStorage

\* resumeTrip(tripId), lines 457-462: resumeTracking() runs to its end, and
\* resumeTrip() awaits the promise it returns; when resumeTracking() throws,
\* nothing is left to do but to log the error and throw it on
ResumeTrip(k, tripId) ==
  /\ NextTripCall(k)
  /\ ResumeTracking
  /\ tripCalls' = IF thrown' = "none"
                    THEN [tripCalls EXCEPT ![k] =
                            TripCall("resumeTrip", tripId, "active", "awaitResume",
                                     NoTrips, NULL)]
                    ELSE tripCalls
  /\ UNCHANGED tripStorage

\* the await of pauseTracking() or resumeTracking() is over, lines 442 and
\* 465: updateTrip() reads the trips for getTrip()
TrackerReturned(k, readFails) ==
  /\ tripCall(k).pc \in {"awaitPause", "awaitResume"}
  /\ tripCalls' = Moved(k, "get", getAllTrips(readFails))
  /\ UNCHANGED <<tripStorage, tracker, others>>

\* the read of getTrip() has answered, lines 360-371: a trip that is not in
\* the list makes updateTrip(), and the operation that called it, throw;
\* otherwise saveTrip() reads the trips once more
TripRead(k, readFails) ==
  /\ tripCall(k).pc = "get"
  /\ tripCalls' = IF tripCall(k).trips[tripCall(k).tripId] = "absent"
                    THEN Ended(k)
                    ELSE Moved(k, "save.get", getAllTrips(readFails))
  /\ UNCHANGED <<tripStorage, tracker, others>>

\* the read of saveTrip() has answered: the list with the updated trip is
\* written, whatever has been written since the read was issued
SaveRead(k) ==
  /\ tripCall(k).pc = "save.get"
  /\ tripStorage' = [tripStorage EXCEPT
       !.trips = saveTrip(tripCall(k).trips, tripCall(k).tripId, tripCall(k).status)]
  /\ tripCalls' = Moved(k, "save.set", NoTrips)
  /\ UNCHANGED <<tracker, others>>

\* the write of saveTrip() has answered and updateTrip() returns: startTrip()
\* writes the active trip id (line 392), completeTrip() clears it (line 421),
\* the other operations return
SaveWritten(k) ==
  /\ tripCall(k).pc = "save.set"
  /\ IF tripCall(k).name \in {"createTrip", "startTrip"}
       THEN /\ tripStorage' = [tripStorage EXCEPT !.activeTripId = tripCall(k).tripId]
            /\ tripCalls' = Moved(k, "setActive", NoTrips)
       ELSE IF tripCall(k).name = "completeTrip"
         THEN /\ tripStorage' = [tripStorage EXCEPT !.activeTripId = NULL]
              /\ tripCalls' = Moved(k, "setActive", NoTrips)
         ELSE /\ tripCalls' = Ended(k)
              /\ UNCHANGED tripStorage
  /\ UNCHANGED <<tracker, others>>

\* the write of the active trip id has answered and startTrip() calls
\* startTracking(tripId): line 395
TripStartTracking(k) ==
  /\ tripCall(k).pc = "setActive"
  /\ tripCall(k).name \in {"createTrip", "startTrip"}
  /\ StartCall(tripCall(k).tripId)
  /\ tripCalls' = Moved(k, "awaitStart", NoTrips)
  /\ UNCHANGED tripStorage

\* the write of the active trip id has answered: completeTrip() returns
\* (lines 423-424), deleteTrip() goes on to tripStorage.deleteTrip(), which
\* reads the trips (line 492)
ActiveWritten(k, readFails) ==
  /\ tripCall(k).pc = "setActive"
  /\ tripCall(k).name \in {"completeTrip", "deleteTrip"}
  /\ tripCalls' = IF tripCall(k).name = "completeTrip"
                    THEN Ended(k)
                    ELSE Moved(k, "delete.get", getAllTrips(readFails))
  /\ UNCHANGED <<tripStorage, tracker, others>>

\* the operation that awaits startTracking() goes on when that call has
\* ended: startTrip() has nothing left to do (lines 397-401), whether
\* startTracking() returned or threw
StartReturned ==
  /\ tripCalls' = [k \in TripCallers |->
                     IF tripCalls[k].pc = "awaitStart" /\ startCall'.pc = "idle"
                       THEN EndedTripCall ELSE tripCalls[k]]
  /\ UNCHANGED tripStorage

TripStartPermission(hasPermission) ==
  /\ StartPermission(hasPermission)
  /\ StartReturned

TripStartSaved ==
  /\ StartSaved
  /\ StartReturned

\* completeTrip(tripId): lines 407-412, the call of stopTracking()
CompleteTrip(k, tripId) ==
  /\ NextTripCall(k)
  /\ StopCall
  /\ tripCalls' = [tripCalls EXCEPT ![k] =
       TripCall("completeTrip", tripId, "completed", "awaitStop", NoTrips, NULL)]
  /\ UNCHANGED tripStorage

\* deleteTrip(tripId), lines 480-485: the active trip id is read
DeleteTrip(k, tripId, readFails) ==
  /\ NextTripCall(k)
  /\ tripCalls' = [tripCalls EXCEPT ![k] =
       TripCall("deleteTrip", tripId, "absent", "getActive", NoTrips,
                getActiveTripId(readFails))]
  /\ UNCHANGED <<tripStorage, tracker, others>>

\* the read of the active trip id has answered with the trip, lines 486-487:
\* stopTracking() is called
ActiveReadStops(k) ==
  /\ tripCall(k).pc = "getActive"
  /\ tripCall(k).activeTripId = tripCall(k).tripId
  /\ StopCall
  /\ tripCalls' = Moved(k, "awaitStop", NoTrips)
  /\ UNCHANGED tripStorage

\* the read of the active trip id has answered with another trip or none:
\* tripStorage.deleteTrip() reads the trips (line 492)
ActiveReadDeletes(k, readFails) ==
  /\ tripCall(k).pc = "getActive"
  /\ tripCall(k).activeTripId # tripCall(k).tripId
  /\ tripCalls' = Moved(k, "delete.get", getAllTrips(readFails))
  /\ UNCHANGED <<tripStorage, tracker, others>>

\* the read of tripStorage.deleteTrip() has answered: the list without the
\* trip is written
DeleteRead(k) ==
  /\ tripCall(k).pc = "delete.get"
  /\ tripStorage' = [tripStorage EXCEPT
       !.trips = deleteTrip(tripCall(k).trips, tripCall(k).tripId)]
  /\ tripCalls' = Moved(k, "delete.set", NoTrips)
  /\ UNCHANGED <<tracker, others>>

\* the write of tripStorage.deleteTrip() has answered: deleteTrip() returns
DeleteWritten(k) ==
  /\ tripCall(k).pc = "delete.set"
  /\ tripCalls' = Ended(k)
  /\ UNCHANGED <<tripStorage, tracker, others>>

\* stopTracking() has returned to the operation that awaits it: completeTrip()
\* calls updateTrip(), which reads the trips for getTrip() (line 415);
\* deleteTrip() clears the active trip id (line 488)
StopReturned(readFails) ==
  IF stopCall'.pc # "idle"
    THEN UNCHANGED journal
    ELSE /\ tripCalls' =
              [k \in TripCallers |->
                 IF tripCalls[k].pc # "awaitStop" THEN tripCalls[k]
                 ELSE IF tripCalls[k].name = "completeTrip"
                   THEN [tripCalls[k] EXCEPT !.pc = "get", !.trips = getAllTrips(readFails)]
                   ELSE [tripCalls[k] EXCEPT !.pc = "setActive"]]
         /\ tripStorage' =
              IF \E k \in TripCallers : /\ tripCalls[k].pc = "awaitStop"
                                        /\ tripCalls[k].name = "deleteTrip"
                THEN [tripStorage EXCEPT !.activeTripId = NULL]
                ELSE tripStorage

TripStopFlush(readFails) ==
  /\ StopFlush(readFails)
  /\ UNCHANGED journal

TripStopSynced(readFails) ==
  /\ StopSynced(FALSE)
  /\ StopReturned(readFails)

TripStopSaved(readFails) ==
  /\ StopSaved
  /\ StopReturned(readFails)

TripStatuses == {"active", "paused", "completed"}

TripNext ==
  \/ \E readFails \in BOOLEAN : Initialize(readFails) /\ UNCHANGED journal
  \/ InitLoaded /\ UNCHANGED journal
  \/ \E k \in TripCallers, tripId \in TripIds, startNow \in BOOLEAN, readFails \in BOOLEAN :
       CreateTrip(k, tripId, startNow, readFails)
  \/ \E k \in TripCallers : CreateRead(k)
  \/ \E k \in TripCallers, readFails \in BOOLEAN : CreateWritten(k, readFails)
  \/ \E k \in TripCallers, tripId \in TripIds, status \in TripStatuses, readFails \in BOOLEAN :
       UpdateTrip(k, tripId, status, readFails)
  \/ \E k \in TripCallers, tripId \in TripIds, readFails \in BOOLEAN :
       StartTrip(k, tripId, readFails)
  \/ \E k \in TripCallers, tripId \in TripIds : PauseTrip(k, tripId)
  \/ \E k \in TripCallers, tripId \in TripIds : ResumeTrip(k, tripId)
  \/ \E k \in TripCallers, readFails \in BOOLEAN : TrackerReturned(k, readFails)
  \/ \E k \in TripCallers, readFails \in BOOLEAN : TripRead(k, readFails)
  \/ \E k \in TripCallers : SaveRead(k)
  \/ \E k \in TripCallers : SaveWritten(k)
  \/ \E k \in TripCallers : TripStartTracking(k)
  \/ \E k \in TripCallers, readFails \in BOOLEAN : ActiveWritten(k, readFails)
  \/ \E hasPermission \in BOOLEAN : TripStartPermission(hasPermission)
  \/ TripStartSaved
  \/ \E k \in TripCallers, tripId \in TripIds : CompleteTrip(k, tripId)
  \/ \E k \in TripCallers, tripId \in TripIds, readFails \in BOOLEAN :
       DeleteTrip(k, tripId, readFails)
  \/ \E k \in TripCallers : ActiveReadStops(k)
  \/ \E k \in TripCallers, readFails \in BOOLEAN : ActiveReadDeletes(k, readFails)
  \/ \E k \in TripCallers : DeleteRead(k)
  \/ \E k \in TripCallers : DeleteWritten(k)
  \/ \E readFails \in BOOLEAN : TripStopFlush(readFails)
  \/ \E readFails \in BOOLEAN : TripStopSynced(readFails)
  \/ \E readFails \in BOOLEAN : TripStopSaved(readFails)
  \/ LocationResolved(None, FALSE) /\ UNCHANGED journal

TripSpec == Init /\ [][TripNext]_vars

\* ------------------------------------------------------------ the sampler
\* One tracking session that is not stopped, on a device that reports its
\* battery level and delivers fixes at chosen distances from the last one.

\* how far (metres) and how long (seconds) after the last stored fix the next
\* one is taken: over 60 s, the speeds just under and just over the edges of
\* the bands (0.98 and 1.01, 1.98 and 2.01, 19.98 and 20.01, 54.98 and 55.01
\* m/s), and two stops at one place
Displacements == {0, 59, 61, 119, 121, 1199, 1201, 3299, 3301}
Moves ==
  {[distance |-> d, seconds |-> 60] : d \in Displacements}
    \cup {[distance |-> 0, seconds |-> SHORT_STOP_TIME \div 1000],
          [distance |-> 0, seconds |-> MIN_DWELL_TIME \div 1000]}

\* the fix a receiver delivers after the move m from the last stored fix
FixAfter(last, m) ==
  [location |-> GeoPoint(last.location.northing + m.distance, last.location.longitude),
   timestamp |-> last.timestamp + m.seconds]

\* what getCurrentLocation() may answer next in the session
SampledUpdates ==
  IF lastLocation = None
    THEN LocationUpdates
    ELSE {None} \cup {Some(FixAfter(Get(lastLocation), m)) :
                        m \in IF arrivals < MaxFixes THEN Moves ELSE {}}

BatteryLevels == {BATTERY_SAVER_THRESHOLD - 1, BATTERY_SAVER_THRESHOLD}

\* the device reports another battery level (RawLocation.batteryLevel); no
\* method of the tracker reads it
BatteryReport(level) ==
  /\ level # batteryLevel
  /\ batteryLevel' = level
  /\ UNCHANGED <<tracker, journal, retryCall, clusterCall, curation, featuredCall, storageCall>>

\* the dwells and visit candidates the tracker hands to the ingest pipeline:
\* TrackerService keeps no dwell and MIN_DWELL_TIME is read only as the
\* stopTimeout of the default config
confirmedDwells == {}

SamplerNext ==
  \/ \E readFails \in BOOLEAN : Initialize(readFails) /\ UNCHANGED journal
  \/ InitLoaded /\ UNCHANGED journal
  \/ \E tripId \in Trips : StartCall(tripId) /\ UNCHANGED journal
  \/ \E hasPermission \in BOOLEAN : StartPermission(hasPermission) /\ UNCHANGED journal
  \/ StartSaved /\ UNCHANGED journal
  \/ PauseTracking /\ UNCHANGED journal
  \/ ResumeTracking /\ UNCHANGED journal
  \/ TrackingTick /\ UNCHANGED journal
  \/ \E locationUpdate \in SampledUpdates, readFails \in BOOLEAN :
       LocationResolved(locationUpdate, readFails) /\ UNCHANGED journal
  \/ \E c \in captures.saving : PendingWritten(c) /\ UNCHANGED journal
  \/ \E c \in captures.saving : CaptureDone(c) /\ UNCHANGED journal
  \/ \E level \in BatteryLevels : BatteryReport(level)

SamplerSpec == Init /\ [][SamplerNext]_vars

\* -------------------------------------------------------- locationStorage
\* The two operations of locationStorage that remove pending locations, and
\* the two generic storage functions that remove keys.  No code of the
\* application calls them on the keys of the tracker (syncPendingLocations()
\* is a mock that removes nothing), so they are no steps of Next: StorageSpec
\* is the tracker beside a client of the storage that does call them.  A key
\* that is removed reads as null: as no pending locations, no config, no trip
\* and no active trip id.

\* clearPendingLocations(): the empty list is written
clearPendingLocations == <<>>

\* removeSyncedLocations(): the records of the list that was read whose id is
\* not among locationIds, in their order
removeSyncedLocations(pending, locationIds) ==
  SelectSeq(pending, LAMBDA loc : loc.id \notin locationIds)

ClearPendingLocations ==
  /\ Ready
  /\ pendingLocations' = clearPendingLocations
  /\ UNCHANGED <<session, config, timers, trackerConfig, initCall, startCall,
                 stopCall, captures, thrown, arrivals>>
  /\ UNCHANGED <<journal, retryCall, clusterCall, batteryLevel, curation, featuredCall, storageCall>>

\* removeSyncedLocations(locationIds), up to the read of the pending
\* locations; a read that fails is answered as an empty list
RemoveSyncedCall(locationIds, readFails) ==
  /\ Ready
  /\ storageCall.pc = "idle"
  /\ storageCall' = [pc |-> "get", locationIds |-> locationIds,
                     local |-> IF readFails THEN <<>> ELSE pendingLocations]
  /\ UNCHANGED <<tracker, journal, retryCall, clusterCall, batteryLevel, curation,
                 featuredCall>>

\* the pending locations have been read: the remaining ones are written
RemoveSyncedWritten ==
  /\ Ready
  /\ storageCall.pc = "get"
  /\ pendingLocations' = removeSyncedLocations(storageCall.local, storageCall.locationIds)
  /\ storageCall' = NoStorageCall
  /\ UNCHANGED <<session, config, timers, trackerConfig, initCall, startCall,
                 stopCall, captures, thrown, arrivals>>
  /\ UNCHANGED <<journal, retryCall, clusterCall, batteryLevel, curation, featuredCall>>

\* the keys of STORAGE_KEYS whose values the model holds
StorageKeys == {"PENDING_LOCATIONS", "TRACKER_CONFIG", "TRIPS", "ACTIVE_TRIP_ID"}

\* storage.remove(key), for one key: AsyncStorage.removeItem(); and what
\* AsyncStorage.clear() does, for all keys
StorageRemove(keys) ==
  /\ Ready
  /\ pendingLocations' = IF "PENDING_LOCATIONS" \in keys THEN <<>> ELSE pendingLocations
  /\ trackerConfig' = IF "TRACKER_CONFIG" \in keys THEN None ELSE trackerConfig
  /\ tripStorage' =
       [trips |-> IF "TRIPS" \in keys THEN NoTrips ELSE tripStorage.trips,
        activeTripId |-> IF "ACTIVE_TRIP_ID" \in keys THEN NULL ELSE tripStorage.activeTripId]
  /\ UNCHANGED <<session, config, timers, initCall, startCall,
                 stopCall, captures, thrown, arrivals>>
  /\ UNCHANGED <<tripCalls, retryCall, clusterCall, batteryLevel, curation, featuredCall,
                 storageCall>>

\* storage.clear(): every key is removed
StorageClear == StorageRemove(StorageKeys)

StorageNext ==
  \/ Next
  \/ \E key \in StorageKeys : StorageRemove({key})
  \/ StorageClear
  \/ ClearPendingLocations
  \/ \E locationIds \in SUBSET (1..MaxFixes), readFails \in BOOLEAN :
       RemoveSyncedCall(locationIds, readFails)
  \/ RemoveSyncedWritten

StorageSpec == Init /\ [][StorageNext]_vars

\* ------------------------------------------------------- the classification
\* One tracking session that is neither paused nor stopped, whose reads of the
\* pending locations succeed and whose fixes lie at chosen distances from the
\* last stored one.

\* how far (metres) and how long (seconds) after the last stored fix the next
\* one is taken: over 600 s, a stop and the speeds a sixth of a hundredth
\* under and over each edge e of the bands of inferActivityFromSpeed(), in
\* hundredths of m/s (0.9983 and 1.0017, 1.9983 and 2.0017, 19.9983 and
\* 20.0017, 54.9983 and 55.0017 m/s)
Strides ==
  {[distance |-> d, seconds |-> 600] :
     d \in {0} \cup {6 * e + i : e \in {100, 200, 2000, 5500}, i \in {-1, 1}}}

\* what getCurrentLocation() may answer next in the session, of a receiver
\* that delivers MaxClassified updates
ClassifiedUpdates ==
  {None} \cup
    IF arrivals >= MaxClassified THEN {}
    ELSE IF lastLocation = None THEN {Some(Update(arrivals + 1))}
    ELSE {Some(FixAfter(Get(lastLocation), m)) : m \in Strides}

\* The steps of ClassifySpec: startTracking() is called while the lifecycle is
\* Stopped, and nothing pauses or stops the session it starts.
ClassifyNext ==
  \/ \E readFails \in BOOLEAN : Initialize(readFails) /\ UNCHANGED journal
  \/ InitLoaded /\ UNCHANGED journal
  \/ \E tripId \in Trips : StartCall(tripId) /\ state = "stopped" /\ UNCHANGED journal
  \/ \E hasPermission \in BOOLEAN : StartPermission(hasPermission) /\ UNCHANGED journal
  \/ StartSaved /\ UNCHANGED journal
  \/ TrackingTick /\ UNCHANGED journal
  \/ \E locationUpdate \in ClassifiedUpdates :
       LocationResolved(locationUpdate, FALSE) /\ UNCHANGED journal
  \/ \E c \in captures.saving : PendingWritten(c) /\ UNCHANGED journal
  \/ \E c \in captures.saving : CaptureDone(c) /\ UNCHANGED journal

ClassifySpec == Init /\ [][ClassifyNext]_vars

\* ----------------------------------------------------------------- claims
Ids(locations) == {locations[i].id : i \in DOMAIN locations}

\* C1: a startTracking() whose permission check answers false throws the
\* permission error and changes nothing: the lifecycle (Stopped stays Stopped),
\* the trip, both timers, the config and the persisted config are as before.
C1_DeniedStartChangesNothing ==
  [][(startCall.pc = "perm" /\ startCall'.pc = "idle" /\ thrown' = "PermissionDenied")
       => UNCHANGED <<state, currentTripId, lastLocation, currentActivity,
                      trackingInterval, syncInterval, config, trackerConfig,
                      pendingLocations, captures>>]_vars

C1_Witness ==
  /\ thrown = "PermissionDenied"
  /\ startCall.pc = "idle"
  /\ state = "stopped"
  /\ currentTripId = NULL
  /\ trackingInterval = None
  /\ syncInterval = None

\* C2 as stated: a stopTracking() called in Active or Paused flushes before the
\* lifecycle becomes Stopped, so the lifecycle is not Stopped while the flush of
\* that call has not been attempted yet.
C2_FlushBeforeStopped ==
  (stopCall.pc = "flush" /\ stopCall.from \in {"active", "paused"}) => state # "stopped"

\* C2 as amended: stopTracking() called in Active or Paused sets the lifecycle
\* to Stopped, clears the trip and cancels both timers first, and attempts the
\* flush only afterwards: while the flush of the call has not been attempted
\* yet, the lifecycle is already Stopped.
C2_StoppedBeforeFlush ==
  (stopCall.pc = "flush" /\ stopCall.from \in {"active", "paused"})
    => /\ state = "stopped"
       /\ currentTripId = NULL
       /\ trackingInterval = None
       /\ syncInterval = None

C2_Witness ==
  /\ stopCall.pc = "flush"
  /\ stopCall.from = "active"
  /\ pendingLocations # <<>>

\* C3: when stopTracking() completes, both the trip and the last location are
\* cleared, so that a later session starts without a previous fix.
C3_StopClearsLastFix ==
  [][(stopCall.pc # "idle" /\ stopCall'.pc = "idle")
       => (currentTripId' = NULL /\ lastLocation' = None)]_vars

\* C4: pauseTracking() from Active sets the lifecycle to Paused, cancels the
\* sampling timer and leaves trip, last location and activity as they are;
\* they stay as they are while the lifecycle is Paused, and the
\* resumeTracking() that follows schedules the timer for that activity and
\* goes on with exactly them.
C4_PauseResumeFrame ==
  [][/\ (state = "active" /\ state' = "paused")
          => (trackingInterval' = None
              /\ UNCHANGED <<currentTripId, lastLocation, currentActivity>>)
     /\ (state = "paused" /\ currentTripId # NULL /\ state' = "paused"
           /\ startCall' = startCall)
          => UNCHANGED <<currentTripId, lastLocation, currentActivity>>
     /\ (state = "paused" /\ state' = "active" /\ startCall' = startCall)
          => (trackingInterval' = Some(getUpdateInterval(currentActivity))
              /\ UNCHANGED <<currentTripId, lastLocation, currentActivity>>)]_vars

\* C5: resumeTracking() without a current trip throws the no-active-trip error
\* and changes nothing else; a resumeTracking() that makes the lifecycle Active
\* ran in a state with a current trip.
C5_ResumeNeedsSession ==
  [][/\ thrown' = "NoActiveSession"
          => (currentTripId = NULL
              /\ UNCHANGED <<state, currentTripId, lastLocation, currentActivity,
                             trackingInterval, syncInterval, config, trackerConfig,
                             pendingLocations, captures, startCall, stopCall>>)
     /\ (state # "active" /\ state' = "active" /\ startCall' = startCall)
          => currentTripId # NULL]_vars

C5_Witness ==
  /\ thrown = "NoActiveSession"
  /\ state = "stopped"
  /\ currentTripId = NULL
  /\ trackingInterval = None

\* C6: while Active (and no start or capture is in progress), the sampling
\* timer runs at the period the current activity asks for: 30 s when moving,
\* 600 s when stationary.
C6_IntervalFollowsActivity ==
  (state = "active" /\ trackingInterval # None /\ InFlight = 0 /\ startCall.pc = "idle")
    => Get(trackingInterval) = getUpdateInterval(currentActivity)

\* C7: every location update a capture obtained is in the pending locations
\* once no capture is in flight any more.
C7_NoFixDropped ==
  InFlight = 0 => \A k \in 1..arrivals : k \in Ids(pendingLocations)

\* C8: of any two fixes captured one after the other, the earlier one stands
\* before the later one in the pending locations once no capture is in
\* flight, however the captures, resumeTracking() and the sync interleaved.
C8_ArrivalOrder ==
  InFlight = 0 =>
    \A k, l \in 1..arrivals :
      k < l => \E i, j \in DOMAIN pendingLocations :
                 /\ i < j
                 /\ pendingLocations[i].id = k
                 /\ pendingLocations[j].id = l

\* C9: at most one captureLocation() cycle is in progress at any time.
C9_OneCaptureAtATime == InFlight <= 1

\* C10: once pauseTracking() or stopTracking() has returned and until the next
\* startTracking() or resumeTracking(), no record is added to the pending
\* locations and last location and activity stay as they are.
C10_NoCaptureAfterCancel ==
  [][(state \in {"paused", "stopped"} /\ stopCall.pc = "idle" /\ startCall.pc = "idle")
       => UNCHANGED <<pendingLocations, lastLocation, currentActivity>>]_vars

\* C11: a stopTracking() called in Active or Paused is not held up by the
\* flush: the call completes, with the lifecycle Stopped, whether or not the
\* pending locations were handed over and whether or not the read of the
\* pending locations or the write of the config failed.
C11_StopCompletes ==
  (stopCall.pc = "flush" /\ stopCall.from \in {"active", "paused"})
    ~> (stopCall.pc = "idle" /\ state = "stopped")

\* C12: with the default arguments, an operation that fails exactly 2 times
\* and then succeeds makes retryWithBackoff() return its value after exactly
\* two waits, of 1000 ms and then 2000 ms, and exactly 3 calls of the operation.
C12_TwoFailuresThenSuccess ==
  (/\ retryCall.pc = "done"
   /\ retryCall.maxRetries = DefaultMaxRetries
   /\ retryCall.baseDelay = DefaultBaseDelay
   /\ retryCall.failures = 2)
    => /\ retryCall.result = "returned"
       /\ retryCall.waits = <<1000, 2000>>
       /\ retryCall.calls = 3

C12_Witness ==
  /\ retryCall.pc = "done"
  /\ retryCall.maxRetries = DefaultMaxRetries
  /\ retryCall.baseDelay = DefaultBaseDelay
  /\ retryCall.failures = 2
  /\ retryCall.result = "returned"

\* C13: retryWithBackoff() makes a first attempt and then up to maxRetries
\* retries, so an operation that fails maxRetries times and succeeds on the
\* attempt after returns its value.
C13_RetriesAfterFirstAttempt ==
  (/\ retryCall.pc = "done"
   /\ retryCall.maxRetries >= 1
   /\ retryCall.failures = retryCall.maxRetries)
    => /\ retryCall.result = "returned"
       /\ retryCall.calls = retryCall.maxRetries + 1

\* C14: for every maxRetries >= 0, a retryWithBackoff() that fails throws the
\* error of the last call of the operation, never an undefined one.
C14_LastErrorSurfaced ==
  (retryCall.pc = "done" /\ retryCall.result = "thrown")
    => /\ retryCall.calls >= 1
       /\ retryCall.error = retryCall.calls

\* C15: a failure of the storage during stopTracking() is reported to the
\* caller: when the write of the tracker config has failed, the call ends by
\* throwing an error.
C15_StopReportsFailure ==
  [][(stopCall.pc = "save" /\ stopCall.failed /\ stopCall'.pc = "idle")
       => thrown' # "none"]_vars

\* C16: a fix whose coordinates are out of range is rejected when it comes
\* in: no record of the pending locations and no last location has a latitude
\* outside [-90, 90] or a longitude outside [-180, 180].
C16_InvalidFixRejected ==
  /\ \A i \in DOMAIN pendingLocations : isValidCoordinate(pendingLocations[i].location)
  /\ lastLocation # None => isValidCoordinate(Get(lastLocation).location)

\* the photos of the clusters, in order, each with the number of its cluster
RECURSIVE Flat(_, _)
Flat(clusters, k) ==
  IF k > Len(clusters) THEN <<>>
  ELSE [i \in 1..Len(clusters[k].photos) |->
          [photo |-> clusters[k].photos[i], cluster |-> k]] \o Flat(clusters, k + 1)

\* the located photos of a cluster, by their places in it, and the sum of their points
Located(photos) == {i \in DOMAIN photos : photos[i].location # None}
RECURSIVE Total(_, _)
Total(photos, places) ==
  IF places = {} THEN 0
  ELSE LET i == CHOOSE i \in places : TRUE
       IN Get(photos[i].location) + Total(photos, places \ {i})

\* C17: in the result of clusterPhotos() a photo without location whose
\* predecessor (the last photo appended before it) has none either is in the
\* cluster of that predecessor iff it is at most 3,600,000 ms later; no other
\* photo of the cluster is looked at, so a chain of such photos is ONE cluster
\* however far apart its first and last photo are.
C17_ComparedWithLastPhoto ==
  clusterCall.pc = "done" =>
    LET all == Flat(clusterCall.clusters, 1)
    IN \A k \in 2..Len(all) :
         (all[k].photo.location = None /\ all[k - 1].photo.location = None)
           => ((all[k].cluster = all[k - 1].cluster)
                <=> (all[k].photo.timestamp - all[k - 1].photo.timestamp <= 3600000))

C17_Witness ==
  /\ clusterCall.pc = "done"
  /\ \E c \in DOMAIN clusterCall.clusters :
       /\ Len(clusterCall.clusters[c].photos) >= 3
       /\ Located(clusterCall.clusters[c].photos) = {}
       /\ clusterCall.clusters[c].endTime - clusterCall.clusters[c].startTime > 3600000

\* C18: a photo and its predecessor that both have a location and are more than
\* 200 m apart are in different clusters, also within the hour; when one of the
\* two has no location, the time test alone decides.
C18_SpatialTest ==
  clusterCall.pc = "done" =>
    LET all == Flat(clusterCall.clusters, 1)
    IN \A k \in 2..Len(all) :
         LET photo == all[k].photo
             last == all[k - 1].photo
             same == all[k].cluster = all[k - 1].cluster
             inTime == photo.timestamp - last.timestamp <= 3600000
         IN IF photo.location # None /\ last.location # None
              THEN IF calculateDistance(Get(photo.location), Get(last.location)) > 200
                     THEN ~same
                     ELSE same <=> inTime
              ELSE same <=> inTime

C18_Witness ==
  /\ clusterCall.pc = "done"
  /\ LET all == Flat(clusterCall.clusters, 1)
     IN \E k \in 2..Len(all) :
          /\ all[k].photo.location # None
          /\ all[k - 1].photo.location # None
          /\ calculateDistance(Get(all[k].photo.location), Get(all[k - 1].photo.location)) > 200
          /\ all[k].photo.timestamp - all[k - 1].photo.timestamp <= 3600000
          /\ all[k].cluster # all[k - 1].cluster

\* C19: the clusters partition the photos passed in: their photos, in order,
\* are the photos passed in, sorted by timestamp with photos of equal timestamp
\* in the order they were passed; no cluster is empty; no photo gives no
\* cluster and one photo gives one cluster.
C19_ClustersPartitionInput ==
  clusterCall.pc = "done" =>
    LET all == Flat(clusterCall.clusters, 1)
        photos == clusterCall.photos
    IN /\ Len(all) = Len(photos)
       /\ \A k \in DOMAIN all :
            /\ all[k].photo.nativeId \in DOMAIN photos
            /\ all[k].photo = photos[all[k].photo.nativeId]
       /\ \A i, j \in DOMAIN all :
            i < j => \/ all[i].photo.timestamp < all[j].photo.timestamp
                     \/ /\ all[i].photo.timestamp = all[j].photo.timestamp
                        /\ all[i].photo.nativeId < all[j].photo.nativeId
       /\ \A c \in DOMAIN clusterCall.clusters : Len(clusterCall.clusters[c].photos) > 0
       /\ photos = <<>> => clusterCall.clusters = <<>>
       /\ Len(photos) = 1 => Len(clusterCall.clusters) = 1

C19_Witness ==
  /\ clusterCall.pc = "done"
  /\ Len(clusterCall.clusters) >= 2
  /\ \E i, j \in DOMAIN clusterCall.photos :
       i < j /\ clusterCall.photos[i].timestamp > clusterCall.photos[j].timestamp
  /\ \E i, j \in DOMAIN clusterCall.photos :
       i < j /\ clusterCall.photos[i].timestamp = clusterCall.photos[j].timestamp

\* C20: every cluster starts at the timestamp of its first photo and ends at
\* that of its last, so not before it starts; its centre is the mean (rounded
\* down) of the points of exactly its located photos, and the point 0 when it
\* has none.
C20_ClusterSummary ==
  clusterCall.pc = "done" =>
    \A c \in DOMAIN clusterCall.clusters :
      LET cluster == clusterCall.clusters[c]
          n == Cardinality(Located(cluster.photos))
          total == Total(cluster.photos, Located(cluster.photos))
      IN /\ cluster.startTime = cluster.photos[1].timestamp
         /\ cluster.endTime = cluster.photos[Len(cluster.photos)].timestamp
         /\ cluster.startTime <= cluster.endTime
         /\ IF n = 0
              THEN cluster.centerLocation = 0
              ELSE /\ n * cluster.centerLocation <= total
                   /\ total < n * (cluster.centerLocation + 1)

C20_Witness ==
  /\ clusterCall.pc = "done"
  /\ \E c \in DOMAIN clusterCall.clusters :
       LET photos == clusterCall.clusters[c].photos
       IN /\ Cardinality(Located(photos)) = 2
          /\ Len(photos) = 3
          /\ \E i, j \in Located(photos) : photos[i].location # photos[j].location
          /\ clusterCall.clusters[c].startTime < clusterCall.clusters[c].endTime

\* C26: a lifecycle of Active or Paused goes with a current trip and a
\* lifecycle of Stopped with none; so pauseTracking() while Stopped does not
\* make the lifecycle Paused.
C26_LifecycleMatchesSession ==
  /\ state \in {"active", "paused"} => currentTripId # NULL
  /\ state = "stopped" => currentTripId = NULL

\* C27: while the lifecycle is Stopped and no startTracking() or
\* stopTracking() call is in progress, neither the tracking timer nor the sync
\* timer is scheduled.
C27_NoTimerWhileStopped ==
  (state = "stopped" /\ startCall.pc = "idle" /\ stopCall.pc = "idle")
    => (trackingInterval = None /\ syncInterval = None)

\* C28: every record of the pending locations carries the trip of the session
\* its capture belongs to, never null.
C28_RecordCarriesTrip ==
  \A i \in DOMAIN pendingLocations : pendingLocations[i].tripId \in Trips

\* C23: a fix is classified by the band its speed lies in: under 1.0 m/s
\* stationary, from 1.0 and under 2.0 walking, from 2.0 and under 20.0 driving,
\* from 20.0 and under 55.0 train, from 55.0 flying.  A fix that comes in when
\* there is a last location gets, as the current activity and in its record,
\* the band of its own speed over the stretch from that last location,
\* whatever the activity was; a fix that comes in when there is none has no
\* speed and leaves the activity as it is.
C23_ClassifiedBySpeed ==
  [][LET \* the band a speed lies in, by the closed range of its hundredths
         SpeedBand(speed) ==
           CASE speed >= 0 /\ speed <= 99 -> "stationary"
             [] speed >= 100 /\ speed <= 199 -> "walking"
             [] speed >= 200 /\ speed <= 1999 -> "driving"
             [] speed >= 2000 /\ speed <= 5499 -> "train"
             [] speed >= 5500 -> "flying"
     IN arrivals' = arrivals + 1 =>
          \E c \in captures'.saving :
            /\ c.fix.id = arrivals'
            /\ c.fix.activity = currentActivity'
            /\ currentActivity' =
                 IF lastLocation = None THEN currentActivity
                 ELSE SpeedBand(calculateSpeed(Get(lastLocation).location.northing,
                                               c.fix.location.northing,
                                               Get(lastLocation).timestamp,
                                               c.fix.timestamp))]_vars

\* a fix 601 m and 600 s after its predecessor (1.0017 m/s, 100 hundredths)
\* has been classified walking after a fix that was classified flying
C23_Witness ==
  /\ currentActivity = "walking"
  /\ \E i, j \in DOMAIN pendingLocations :
       /\ pendingLocations[j].id = pendingLocations[i].id + 1
       /\ pendingLocations[i].activity = "flying"
       /\ pendingLocations[j].activity = "walking"
       /\ pendingLocations[j].location.northing - pendingLocations[i].location.northing = 601
       /\ pendingLocations[j].timestamp - pendingLocations[i].timestamp = 600
       /\ lastLocation = Some([location |-> pendingLocations[j].location,
                               timestamp |-> pendingLocations[j].timestamp])

\* C24: a tracking timer that is scheduled while the reported battery level is
\* below 20 percent gets the stationary interval, whatever the activity is.
C24_BatterySaverInterval ==
  [][(/\ batteryLevel < BATTERY_SAVER_THRESHOLD
      /\ batteryLevel' < BATTERY_SAVER_THRESHOLD
      /\ trackingInterval' # None
      /\ trackingInterval' # trackingInterval)
       => Get(trackingInterval') = STATIONARY_INTERVAL]_vars

\* C25: once two fixes in a row of one trip, 30 minutes or more apart, are both
\* classified stationary, a confirmed dwell is handed to the ingest pipeline.
C25_DwellConfirmed ==
  (\E i, j \in DOMAIN pendingLocations :
     /\ pendingLocations[j].id = pendingLocations[i].id + 1
     /\ pendingLocations[i].tripId = pendingLocations[j].tripId
     /\ pendingLocations[i].activity = "stationary"
     /\ pendingLocations[j].activity = "stationary"
     /\ (pendingLocations[j].timestamp - pendingLocations[i].timestamp) * 1000
          >= MIN_DWELL_TIME)
    => confirmedDwells # {}

\* C22: selectFeaturedPhotos(photos, count) returns the first count photos, or
\* all of them when there are fewer, of the photos in descending order of
\* qualityScore, photos of one score in the order they were passed in; it leaves
\* the array passed in as it was, and returns no photo when passed none.
C22_FeaturedAreTheBest ==
  featuredCall.pc = "done" =>
    LET passed == featuredCall.passed
        result == featuredCall.result
        \* the place of the photo at index j among the photos passed in
        place(j) == 1 + Cardinality({i \in DOMAIN passed :
                           \/ passed[i].qualityScore > passed[j].qualityScore
                           \/ /\ passed[i].qualityScore = passed[j].qualityScore
                              /\ i < j})
    IN /\ Len(result) = IF featuredCall.count < Len(passed)
                          THEN featuredCall.count ELSE Len(passed)
       /\ \A j \in DOMAIN passed : place(j) <= Len(result) => result[place(j)] = passed[j]
       /\ featuredCall.photos = passed
       /\ passed = <<>> => result = <<>>

\* a call that drops a photo, returns two photos of one score and was passed
\* the photos in another order than it returns them
C22_Witness ==
  /\ featuredCall.pc = "done"
  /\ Len(featuredCall.result) = 2
  /\ Len(featuredCall.passed) = 3
  /\ featuredCall.result[1].qualityScore = featuredCall.result[2].qualityScore
  /\ featuredCall.passed[1].qualityScore < featuredCall.passed[2].qualityScore

\* C21: a curation run that returns has put in its clusters exactly the
\* analysed photos that are not junk and score 0.5 or more, and the photos it
\* processed are the ones it filtered plus the ones it added.
C21_OnlyGatedPhotosClustered ==
  curated.outcome = "returned" =>
    LET result == Get(curated.result)
        passes(p) == ~p.isJunk /\ p.qualityScore >= 50
        clustered == UNION {{curated.clusters[c].photos[i] :
                               i \in DOMAIN curated.clusters[c].photos} :
                            c \in DOMAIN curated.clusters}
        analyzed == {curated.analyzedPhotos[i] : i \in DOMAIN curated.analyzedPhotos}
    IN /\ clustered = {p \in analyzed : passes(p)}
       /\ result.photosAdded = Cardinality(clustered)
       /\ result.photosProcessed = Len(curated.analyzedPhotos)
       /\ result.photosProcessed = result.photosFiltered + result.photosAdded

\* a run over a photo that scores exactly 0.5, a junk photo and a photo that
\* scores less, which kept the first one only
C21_Witness ==
  /\ curated.outcome = "returned"
  /\ Get(curated.result).photosAdded = 1
  /\ Get(curated.result).photosFiltered = 2
  /\ \E i, j, k \in DOMAIN curated.analyzedPhotos :
       /\ curated.analyzedPhotos[i].qualityScore = 50 /\ ~curated.analyzedPhotos[i].isJunk
       /\ curated.analyzedPhotos[j].qualityScore = 85 /\ curated.analyzedPhotos[j].isJunk
       /\ curated.analyzedPhotos[k].qualityScore = 49 /\ ~curated.analyzedPhotos[k].isJunk
  /\ Len(curated.clusters) = 1

\* C29: the flag is set exactly while a run is in progress, at most one run is
\* in progress, and a call is rejected only while a run is in progress.
C29_OneRunAtATime ==
  /\ [](/\ Cardinality({k \in Callers : curateCalls[k].pc # "idle"}) <= 1
        /\ isRunning <=> (\E k \in Callers : curateCalls[k].pc # "idle"))
  /\ [][(curated'.outcome = "rejected" /\ curated.outcome # "rejected")
          => (/\ \E k \in Callers : curateCalls[k].pc # "idle"
              /\ UNCHANGED <<isRunning, curateCalls>>)]_vars

\* a call has been rejected while another run is analysing its photos
C29_Witness ==
  /\ curated.outcome = "rejected"
  /\ isRunning
  /\ \E k \in Callers : /\ curateCalls[k].pc = "analyze"
                         /\ Len(curateCalls[k].analyzedPhotos) > 0

\* C30: while no operation of the trip service is in progress, a stored trip
\* of status active is the trip the tracker tracks: the tracker is active with
\* that trip, which is also the stored active trip id.
C30_ActiveTripIsTracked ==
  (\A k \in TripCallers : tripCalls[k].pc \in {"idle", "done"}) =>
    \A tripId \in TripIds :
      tripStorage.trips[tripId] = "active" =>
        /\ state = "active"
        /\ currentTripId = tripId
        /\ tripStorage.activeTripId = tripId

====
